---- MODULE Spec2Model ----
(***************************************************************************)
(* Model of digitake.preprocess: the split builder                         *)
(* (build_dataset, build_train_validation_set), the transform factory's    *)
(* phase lookup (get_transform) and the partitioned-index dataset          *)
(* (ThyroidDataset).                                                       *)
(*                                                                         *)
(* Representation.                                                         *)
(*  - A class label is a positive integer; the order of the integers is    *)
(*    the lexical order of the label strings (benign < malignant).         *)
(*  - A path is a pair <<dir, file>>: the file-th entry that glob lists    *)
(*    in directory dir.                                                    *)
(*  - A Python dict is a sequence of <<key, value>> pairs with distinct    *)
(*    keys, in insertion order (the order dict iteration follows).         *)
(*  - A Python list is a sequence; Python's 0-based position p is          *)
(*    position p + 1 of the sequence.                                      *)
(*  - A raised exception is a record whose err field names its class.      *)
(***************************************************************************)
EXTENDS Integers, Sequences, FiniteSets, TLC

VARIABLES
    status,      \* "new" before the constructor ran, then "ready" or "failed"
    error,       \* the exception the constructor raised, "none" otherwise
    attrs,       \* the attributes assigned on self so far
    phase,       \* self.phase
    dataset,     \* self.dataset   (a dict label -> list of paths)
    partition,   \* self.partition (a list of (label, count))
    transform,   \* self.transform
    wres,        \* per worker: its last call on the present class map and
                 \* what the call returned or raised
    sargs,       \* split builder: the arguments of the call
    sres         \* split builder: the result of the call

vars == <<status, error, attrs, phase, dataset, partition, transform,
          wres, sargs, sres>>

objVars == <<status, error, attrs, phase, dataset, partition, transform>>
workerVars == <<wres>>
splitVars == <<sargs, sres>>

----------------------------------------------------------------------------
(* Bounds of the model *)

MaxLen == 2         \* longest path list handed to set_dataset / listed by glob
MaxExtra == 1       \* a class directory lists up to val_size + MaxExtra files
MaxIndex == 5       \* largest linear index a caller tries

(* Program constants *)

benign == 1
malignant == 2
Benign_Markers_Crop == 1
Malignant_Markers_Crop == 2
val_size == 24

Labels == {benign, malignant}
Workers == {"w1", "w2"}     \* callers reading the one dataset object
StdPhases == {"train", "val", "test"}
Phases == StdPhases \cup {"custom"}

----------------------------------------------------------------------------
(* Python dicts and lists *)

Keys(d) == {d[i][1] : i \in DOMAIN d}

Get(d, k) == d[CHOOSE i \in DOMAIN d : d[i][1] = k][2]

Values(d) == [i \in DOMAIN d |-> d[i][2]]

\* d[k] = v : replaces the value of an existing key in place, appends a new key
Put(d, k, v) ==
    IF k \in Keys(d)
    THEN [i \in DOMAIN d |-> IF d[i][1] = k THEN <<k, v>> ELSE d[i]]
    ELSE Append(d, <<k, v>>)

\* lst[n:] with Python's slice rules (a negative n counts from the end)
SliceFrom(lst, n) ==
    LET len == Len(lst)
        lo == IF n < 0 THEN (IF len + n < 0 THEN 0 ELSE len + n)
                       ELSE (IF n > len THEN len ELSE n)
    IN  SubSeq(lst, lo + 1, len)

\* lst[:n] with Python's slice rules
SliceTo(lst, n) ==
    LET len == Len(lst)
        hi == IF n < 0 THEN (IF len + n < 0 THEN 0 ELSE len + n)
                       ELSE (IF n > len THEN len ELSE n)
    IN  SubSeq(lst, 1, hi)

\* sorted(items): ascending by key (keys of a dict are distinct)
RECURSIVE InsertSorted(_, _)
InsertSorted(s, x) ==
    IF s = <<>> THEN <<x>>
    ELSE IF x[1] < Head(s)[1] THEN <<x>> \o s
    ELSE <<Head(s)>> \o InsertSorted(Tail(s), x)

RECURSIVE sorted(_)
sorted(items) ==
    IF items = <<>> THEN <<>>
    ELSE InsertSorted(sorted(SubSeq(items, 1, Len(items) - 1)), items[Len(items)])

\* sum(lists, start): left-to-right list concatenation
RECURSIVE sum(_, _)
sum(lists, start) ==
    IF lists = <<>> THEN start
    ELSE sum(Tail(lists), start \o Head(lists))

----------------------------------------------------------------------------
(* get_transform: only the phase lookup decides between a pipeline and an   *)
(* exception; the pipeline itself is the vision library's.                 *)

get_transform(target_size, ph) ==
    IF ph \in StdPhases
    THEN [err |-> "none", pipeline |-> ph]
    ELSE [err |-> "Exception"]

----------------------------------------------------------------------------
(* build_dataset: listing[dir] is what glob.glob returns for the directory *)

glob(listing, dir) == [k \in 1..listing[dir] |-> <<dir, k>>]

RECURSIVE build_dataset_loop(_, _, _)
build_dataset_loop(datasource, listing, datasets) ==
    IF datasource = <<>> THEN datasets
    ELSE build_dataset_loop(Tail(datasource), listing,
             Put(datasets, Head(datasource)[1], glob(listing, Head(datasource)[2])))

build_dataset(datasource, listing) == build_dataset_loop(datasource, listing, <<>>)

----------------------------------------------------------------------------
(* build_train_validation_set *)

\* variant: the assert admits a class of exactly val_size paths
RECURSIVE split_loop_admits_equal(_, _, _, _, _)
split_loop_admits_equal(datasets, pos, v, training_set, validation_set) ==
    IF pos > Len(datasets)
    THEN [err |-> "none", training_set |-> training_set,
          validation_set |-> validation_set]
    ELSE LET key == datasets[pos][1]
             ds_size == Len(datasets[pos][2])
         IN  IF ~(v <= ds_size)
             THEN [err |-> "AssertionError", key |-> key, ds_size |-> ds_size]
             ELSE split_loop_admits_equal(datasets, pos + 1, v,
                      Put(training_set, key, SliceFrom(datasets[pos][2], v)),
                      Put(validation_set, key, SliceTo(datasets[pos][2], v)))

RECURSIVE split_loop(_, _, _, _, _)
split_loop(datasets, pos, v, training_set, validation_set) ==
    IF pos > Len(datasets)
    THEN [err |-> "none", training_set |-> training_set,
          validation_set |-> validation_set]
    ELSE LET key == datasets[pos][1]
             ds_size == Len(datasets[pos][2])
         IN  IF ~(v < ds_size)
             THEN [err |-> "AssertionError", key |-> key, ds_size |-> ds_size]
             ELSE split_loop(datasets, pos + 1, v,
                      Put(training_set, key, SliceFrom(datasets[pos][2], v)),
                      Put(validation_set, key, SliceTo(datasets[pos][2], v)))

build_train_validation_set(datasource, v, listing) ==
    split_loop(build_dataset(datasource, listing), 1, v, <<>>, <<>>)

----------------------------------------------------------------------------
(* ThyroidDataset *)

datasource_paths == << <<malignant, Malignant_Markers_Crop>>,
                       <<benign, Benign_Markers_Crop>> >>

\* variant: the partition follows the insertion order of the class map
build_partition_unsorted(d) == [i \in DOMAIN d |-> <<d[i][1], Len(d[i][2])>>]

\* the partition set_dataset builds
build_partition(d) ==
    LET items == sorted(d)
    IN  [i \in DOMAIN items |-> <<items[i][1], Len(items[i][2])>>]

\* __len__
len_dataset(d) == Len(sum(Values(d), <<>>))

\* variant: the walk moves to the next class without reducing the index
RECURSIVE partition_walk_no_subtract(_, _, _, _)
partition_walk_no_subtract(p, pos, index, class_num) ==
    IF pos > Len(p) THEN [err |-> "IndexError"]
    ELSE IF index >= p[pos][2]
         THEN partition_walk_no_subtract(p, pos + 1, index, class_num + 1)
         ELSE [err |-> "none", label |-> p[pos][1], class_index |-> class_num,
               index |-> index]

\* __get_partitioned_index
RECURSIVE partition_walk(_, _, _, _)
partition_walk(p, pos, index, class_num) ==
    IF pos > Len(p) THEN [err |-> "IndexError"]
    ELSE IF index >= p[pos][2]
         THEN partition_walk(p, pos + 1, index - p[pos][2], class_num + 1)
         ELSE [err |-> "none", label |-> p[pos][1], class_index |-> class_num,
               index |-> index]

\* variant: no check of the sign of the index
get_partitioned_index_unsigned(p, index) == partition_walk(p, 1, index, 0)

get_partitioned_index(p, index) ==
    IF index < 0 THEN [err |-> "IndexError"]
    ELSE partition_walk(p, 1, index, 0)

\* self.dataset[label][index] and the metadata record of __getitem__
getitem_lookup(d, loc) ==
    IF loc.label \notin Keys(d) THEN [err |-> "KeyError"]
    ELSE IF loc.index >= Len(Get(d, loc.label)) THEN [err |-> "IndexError"]
    ELSE [err |-> "none", class_index |-> loc.class_index,
          path |-> Get(d, loc.label)[loc.index + 1], label |-> loc.label,
          inclass_index |-> loc.index]

\* variant: the class number is taken as a 1-based position
get_class_label_one_based(p, class_index) ==
    IF ~(class_index < Len(p)) THEN [err |-> "AssertionError"]
    ELSE IF class_index - 1 >= 0 THEN [err |-> "none", label |-> p[class_index][1]]
    ELSE IF Len(p) + class_index - 1 >= 0
         THEN [err |-> "none", label |-> p[Len(p) + class_index][1]]
    ELSE [err |-> "IndexError"]

\* get_class_label: an assert on the upper end, then Python list indexing
get_class_label(p, class_index) ==
    IF ~(class_index < Len(p)) THEN [err |-> "AssertionError"]
    ELSE IF class_index >= 0 THEN [err |-> "none", label |-> p[class_index + 1][1]]
    ELSE IF Len(p) + class_index >= 0
         THEN [err |-> "none", label |-> p[Len(p) + class_index + 1][1]]
    ELSE [err |-> "IndexError"]

----------------------------------------------------------------------------
(* Inputs *)

\* the orders in which distinct labels can be inserted into a dict
LabelOrders ==
    {o \in UNION {[1..n -> Labels] : n \in 0..Cardinality(Labels)} :
        \A i, j \in DOMAIN o : i # j => o[i] # o[j]}

\* class maps a caller can hand to set_dataset: label l maps to the first
\* n[l] paths of its directory
ClassMaps ==
    {[i \in DOMAIN o |-> <<o[i], glob(n, o[i])>>] :
        o \in LabelOrders, n \in [Labels -> 0..MaxLen]}

\* what the two class directories list when the constructor runs
CtorListings ==
    [{Benign_Markers_Crop, Malignant_Markers_Crop} -> val_size..(val_size + MaxExtra)]

TargetSizes == {"int", "tuple", "list"}     \* type(target_size)
TransformArgs == {"None", "user"}           \* the transform argument

\* linear indices and class numbers a caller tries
IndexInputs ==
    LET n == len_dataset(dataset) + 1
    IN  -1..(IF n < MaxIndex THEN n ELSE MaxIndex)
ClassInputs == (0 - Len(partition) - 1)..(Len(partition) + 1)

\* arguments of build_train_validation_set
ValSizes == (0 - MaxLen - 1)..(MaxLen + 1)
SplitInputs ==
    {[datasource |-> [i \in DOMAIN o |-> <<o[i], o[i]>>], val_size |-> v,
      listing |-> n] :
        o \in LabelOrders, v \in ValSizes, n \in [Labels -> 0..MaxLen]}

NoRes == [op |-> "none"]
Pending == [err |-> "pending"]
NoSplit == [datasource |-> <<>>, val_size |-> 0, listing |-> [l \in Labels |-> 0]]

----------------------------------------------------------------------------
(* The dataset object and its callers *)

InitObject ==
    /\ status = "new"
    /\ error = "none"
    /\ attrs = {}
    /\ phase = "none"
    /\ dataset = <<>>
    /\ partition = <<>>
    /\ transform = "none"
    /\ wres = [w \in Workers |-> NoRes]

Init ==
    /\ InitObject
    /\ sargs = NoSplit
    /\ sres = Pending

\* variant: the class map is replaced and the partition is kept
set_dataset_keeps_partition(d) ==
    /\ dataset' = d
    /\ partition' = partition
    /\ attrs' = attrs \cup {"phase", "dataset", "partition"}

\* set_dataset, as a function of the state it assigns
set_dataset(d) ==
    /\ dataset' = d
    /\ partition' = build_partition(d)
    /\ attrs' = attrs \cup {"phase", "dataset", "partition"}

\* ThyroidDataset.__init__(phase, target_size, transform); an exception
\* leaves the caller without an object
Construct(ph, target_size, tf, listing) ==
    /\ status = "new"
    /\ phase' = ph
    /\ LET r == build_train_validation_set(datasource_paths, val_size, listing)
           \* None and the empty dict are both falsy in "if dataset:"
           ds == IF r.err # "none" THEN <<>>
                 ELSE IF ph = "train" THEN r.training_set
                 ELSE IF ph \in {"val", "test"} THEN r.validation_set
                 ELSE <<>>
           t == get_transform(target_size, ph)
       IN  IF r.err # "none"
           THEN /\ status' = "failed"
                /\ error' = "AssertionError: dataset is smaller than validation size"
                /\ attrs' = {"phase"}
                /\ UNCHANGED <<dataset, partition, transform>>
           ELSE /\ IF ds # <<>>
                   THEN set_dataset(ds)
                   ELSE /\ attrs' = {"phase"}
                        /\ UNCHANGED <<dataset, partition>>
                /\ IF target_size \notin {"int", "tuple"}
                   THEN /\ status' = "failed"
                        /\ error' = "AssertionError: target_size must be tuple"
                        /\ UNCHANGED transform
                   ELSE IF tf # "None"
                   THEN /\ status' = "ready"
                        /\ error' = "none"
                        /\ transform' = tf
                   ELSE IF t.err # "none"
                   THEN /\ status' = "failed"
                        /\ error' = "Exception: Unknown pharse specified"
                        /\ UNCHANGED transform
                   ELSE /\ status' = "ready"
                        /\ error' = "none"
                        /\ transform' = t.pipeline
    /\ UNCHANGED <<workerVars, splitVars>>

\* a caller replaces the class map; wres is an observation, not a field of
\* the object: what was read from the replaced map is forgotten with it
SetDataset(d) ==
    /\ status = "ready"
    /\ set_dataset(d)
    /\ wres' = [w \in Workers |-> NoRes]
    /\ UNCHANGED <<status, error, phase, transform, splitVars>>

\* len(ds)
Length(w) ==
    /\ status = "ready"
    /\ wres' = [wres EXCEPT ![w] =
           [op |-> "len", arg |-> 0,
            out |-> IF "dataset" \in attrs
                    THEN [err |-> "none", value |-> len_dataset(dataset)]
                    ELSE [err |-> "AttributeError"]]]
    /\ UNCHANGED <<objVars, splitVars>>

\* __getitem__ without the image: the linear index is resolved against
\* self.partition, the path is read from self.dataset; the image library
\* then loads and transforms the file at that path
getitem(p, d, index) ==
    LET r == get_partitioned_index(p, index)
    IN  IF r.err # "none" THEN r ELSE getitem_lookup(d, r)

\* variant: the read takes the path out of the class's list
GetItemPopping(w, index) ==
    /\ status = "ready"
    /\ LET out == IF "partition" \in attrs
                  THEN getitem(partition, dataset, index)
                  ELSE [err |-> "AttributeError"]
       IN  /\ wres' = [wres EXCEPT ![w] =
                  [op |-> "getitem", arg |-> index, out |-> out]]
           /\ dataset' =
                  IF out.err # "none" THEN dataset
                  ELSE LET lst == Get(dataset, out.label)
                           k == out.inclass_index + 1
                       IN  Put(dataset, out.label,
                               SubSeq(lst, 1, k - 1) \o SubSeq(lst, k + 1, Len(lst)))
    /\ UNCHANGED <<status, error, attrs, phase, partition, transform, splitVars>>

\* ds[index]
GetItem(w, index) ==
    /\ status = "ready"
    /\ wres' = [wres EXCEPT ![w] =
           [op |-> "getitem", arg |-> index,
            out |-> IF "partition" \in attrs
                    THEN getitem(partition, dataset, index)
                    ELSE [err |-> "AttributeError"]]]
    /\ UNCHANGED <<objVars, splitVars>>

\* ds.get_class_label(class_index)
GetClassLabel(w, class_index) ==
    /\ status = "ready"
    /\ wres' = [wres EXCEPT ![w] =
           [op |-> "label", arg |-> class_index,
            out |-> IF "partition" \in attrs
                    THEN get_class_label(partition, class_index)
                    ELSE [err |-> "AttributeError"]]]
    /\ UNCHANGED <<objVars, splitVars>>

Next ==
    \/ \E ph \in Phases, ts \in TargetSizes, tf \in TransformArgs,
          listing \in CtorListings : Construct(ph, ts, tf, listing)
    \/ \E d \in ClassMaps : SetDataset(d)
    \/ \E w \in Workers : Length(w)
    \/ \E w \in Workers, index \in IndexInputs : GetItem(w, index)
    \/ \E w \in Workers, c \in ClassInputs : GetClassLabel(w, c)

Spec == Init /\ [][Next]_vars

----------------------------------------------------------------------------
(* The split builder on its own *)

InitSplit ==
    /\ InitObject
    /\ sargs \in SplitInputs
    /\ sres = Pending

Split ==
    /\ sres = Pending
    /\ sres' = build_train_validation_set(sargs.datasource, sargs.val_size,
                                          sargs.listing)
    /\ UNCHANGED <<objVars, workerVars, sargs>>

NextSplit == Split

SpecSplit == InitSplit /\ [][NextSplit]_vars

----------------------------------------------------------------------------
(* What the properties are stated against: the class map read as a set of  *)
(* labels, with no reference to the partition or to insertion order        *)

\* 0-based position of label l among the ascending labels of class map d
RankOf(d, l) == Cardinality({k \in Keys(d) : k < l})

\* the path lists of the labels in S, concatenated in ascending label order
RECURSIVE ConcatAscending(_, _)
ConcatAscending(d, S) ==
    IF S = {} THEN <<>>
    ELSE LET m == CHOOSE m \in S : \A k \in S : m <= k
         IN  Get(d, m) \o ConcatAscending(d, S \ {m})

\* the number of paths of the labels in S
RECURSIVE CountOf(_, _)
CountOf(d, S) ==
    IF S = {} THEN 0
    ELSE LET m == CHOOSE m \in S : TRUE
         IN  Len(Get(d, m)) + CountOf(d, S \ {m})

RECURSIVE SumCounts(_)
SumCounts(p) == IF p = <<>> THEN 0 ELSE Head(p)[2] + SumCounts(Tail(p))

HasEmptyClass(d) == \E k \in Keys(d) : Get(d, k) = <<>>

Installed == {"dataset", "partition"} \subseteq attrs

ValidIndices == 0..(len_dataset(dataset) - 1)

----------------------------------------------------------------------------
(* C1: every linear index in range resolves to the label, the 0-based rank *)
(* of that label among the ascending labels, and the offset at which the   *)
(* class holds the index-th path of the classes concatenated in ascending  *)
(* label order, whatever the insertion order of the class map.             *)

C1_ResolveFollowsSortedConcatenation ==
    Installed =>
        \A i \in ValidIndices :
            LET r == get_partitioned_index(partition, i)
                g == getitem(partition, dataset, i)
            IN  /\ r.err = "none"
                /\ r.label \in Keys(dataset)
                /\ r.index \in 0..(Len(Get(dataset, r.label)) - 1)
                /\ Get(dataset, r.label)[r.index + 1]
                       = ConcatAscending(dataset, Keys(dataset))[i + 1]
                /\ r.class_index = RankOf(dataset, r.label)
                /\ g.err = "none"
                /\ g.path = ConcatAscending(dataset, Keys(dataset))[i + 1]
                /\ g.class_index = RankOf(dataset, g.label)

\* a read landed in the second class of a map inserted in descending order
C1_Witness ==
    /\ status = "ready"
    /\ Len(dataset) = 2
    /\ dataset[1][1] > dataset[2][1]
    /\ \E w \in Workers :
          /\ wres[w].op = "getitem"
          /\ wres[w].out.err = "none"
          /\ wres[w].out.class_index = 1
          /\ wres[w].out.inclass_index = 1

(* C2: every linear index in range resolves to a triple, and two distinct  *)
(* indices in range never resolve to the same triple.                      *)

C2_ResolveIsInjective ==
    Installed =>
        \A i, j \in ValidIndices :
            /\ get_partitioned_index(partition, i).err = "none"
            /\ i # j => get_partitioned_index(partition, i)
                            # get_partitioned_index(partition, j)

\* two callers read distinct indices of the same class
C2_Witness ==
    /\ status = "ready"
    /\ \E w, v \in Workers :
          /\ wres[w].op = "getitem" /\ wres[v].op = "getitem"
          /\ wres[w].arg # wres[v].arg
          /\ wres[w].out.err = "none" /\ wres[v].out.err = "none"
          /\ wres[w].out.label = wres[v].out.label
          /\ wres[w].out.inclass_index # wres[v].out.inclass_index

(* C3: resolving raises IndexError exactly for the negative indices and    *)
(* the indices from length() on, also with empty classes and with no item. *)

IndexProbes == (0 - 2)..(len_dataset(dataset) + 2)

C3_IndexErrorExactlyOutOfRange ==
    Installed =>
        \A i \in IndexProbes :
            (get_partitioned_index(partition, i).err = "IndexError")
                <=> (i < 0 \/ i >= len_dataset(dataset))

\* with an empty class in the map, one caller was refused index -1 and
\* another the index length()
C3_Witness ==
    /\ status = "ready"
    /\ Installed
    /\ HasEmptyClass(dataset)
    /\ len_dataset(dataset) > 0
    /\ \E w, v \in Workers :
          /\ wres[w].op = "getitem" /\ wres[w].arg = -1
          /\ wres[w].out.err = "IndexError"
          /\ wres[v].op = "getitem" /\ wres[v].arg = len_dataset(dataset)
          /\ wres[v].out.err = "IndexError"

(* C4: once a class map is installed, the counts of the partition add up   *)
(* to length(), length() is the number of paths of the class map held, and *)
(* the partition lists exactly the labels of that map with their counts.   *)

C4_PartitionMatchesClassMap ==
    Installed =>
        /\ SumCounts(partition) = len_dataset(dataset)
        /\ len_dataset(dataset) = CountOf(dataset, Keys(dataset))
        /\ Len(partition) = Len(dataset)
        /\ {partition[i] : i \in DOMAIN partition}
               = {<<k, Len(Get(dataset, k))>> : k \in Keys(dataset)}

\* the constructor's two-class map was replaced by a map with an empty
\* class, and a caller then asked for the length
C4_Witness ==
    /\ status = "ready"
    /\ phase \in StdPhases
    /\ Len(dataset) = 2
    /\ HasEmptyClass(dataset)
    /\ \E w \in Workers :
          /\ wres[w].op = "len"
          /\ wres[w].out.err = "none"
          /\ wres[w].out.value = MaxLen

(* C5: the split fails with the assertion error, and hands back no         *)
(* train/validation maps, whenever some class has at most val_size paths   *)
(* (a class without paths at val_size 0 included).                         *)

SplitCounts ==
    [i \in DOMAIN sargs.datasource |-> sargs.listing[sargs.datasource[i][2]]]

C6_SplitTakesFirstValSize ==
    (sres # Pending /\ \A i \in DOMAIN SplitCounts : sargs.val_size < SplitCounts[i])
        => /\ sres.err = "none"
           /\ Keys(sres.training_set) = Keys(sargs.datasource)
           /\ Keys(sres.validation_set) = Keys(sargs.datasource)
           /\ \A i \in DOMAIN sargs.datasource :
                 LET key == sargs.datasource[i][1]
                     paths == glob(sargs.listing, sargs.datasource[i][2])
                     val == Get(sres.validation_set, key)
                     train == Get(sres.training_set, key)
                 IN  /\ Len(val) = sargs.val_size
                     /\ val = SubSeq(paths, 1, sargs.val_size)
                     /\ train = SubSeq(paths, sargs.val_size + 1, Len(paths))
                     /\ val \o train = paths

(* C7: for every linear index in range, get_class_label of the class       *)
(* number the index resolves to is the label the index resolves to.        *)

C7_ClassLabelRoundTrip ==
    Installed =>
        \A i \in ValidIndices :
            LET r == get_partitioned_index(partition, i)
            IN  /\ r.err = "none"
                /\ get_class_label(partition, r.class_index)
                       = [err |-> "none", label |-> r.label]

\* behind an empty first class, one caller read an item of class 1 and
\* another looked class 1 up
C7_Witness ==
    /\ status = "ready"
    /\ Installed
    /\ Len(partition) = 2
    /\ partition[1][2] = 0
    /\ \E w, v \in Workers :
          /\ wres[w].op = "getitem"
          /\ wres[w].out.err = "none"
          /\ wres[w].out.class_index = 1
          /\ wres[v].op = "label"
          /\ wres[v].arg = 1
          /\ wres[v].out.err = "none"
          /\ wres[v].out.label = wres[w].out.label

(* C8: get_class_label(c) returns the label at position c of the partition *)
(* exactly when 0 <= c < len(partition), and fails with the assertion      *)
(* error for every other c.                                                *)

C8_ClassLabelOnlyInRange ==
    \A w \in Workers :
        (Installed /\ wres[w].op = "label") =>
            IF 0 <= wres[w].arg /\ wres[w].arg < Len(partition)
            THEN wres[w].out = [err |-> "none", label |-> partition[wres[w].arg + 1][1]]
            ELSE wres[w].out.err = "AssertionError"

(* C9: constructing a dataset for a phase other than train, val and test   *)
(* succeeds (the directories listing enough files and target_size being an *)
(* int or a tuple), and installs no class map and no partition.            *)

ArgumentErrors ==
    {"AssertionError: dataset is smaller than validation size",
     "AssertionError: target_size must be tuple"}

C9_CustomPhaseConstructs ==
    (status # "new" /\ phase \notin StdPhases /\ error \notin ArgumentErrors)
        => status = "ready"

(* C10: a read (len, item, class label) leaves the class map, the          *)
(* partition, the transform, the phase and the other callers' results as   *)
(* they are, also when it fails, and an item read returns the class number *)
(* and metadata the class map alone determines; replacing the class map    *)
(* leaves the transform and the phase as they are.                         *)

ItemOf(d, index) ==
    LET path == ConcatAscending(d, Keys(d))[index + 1]
        label == CHOOSE k \in Keys(d) : \E o \in DOMAIN Get(d, k) : Get(d, k)[o] = path
    IN  [err |-> "none", class_index |-> RankOf(d, label), path |-> path,
         label |-> label,
         inclass_index |-> index - CountOf(d, {k \in Keys(d) : k < label})]

C10_Step ==
    /\ (\E w \in Workers : wres'[w] # wres[w] /\ wres'[w] # NoRes) =>
          /\ UNCHANGED <<dataset, partition, transform, phase, attrs, status>>
          /\ Cardinality({w \in Workers : wres'[w] # wres[w]}) = 1
          /\ \A w \in Workers :
                (/\ wres'[w] # wres[w]
                 /\ wres'[w].op = "getitem"
                 /\ Installed
                 /\ wres'[w].arg \in ValidIndices)
                    => wres'[w].out = ItemOf(dataset, wres'[w].arg)
    /\ (status = "ready" /\ <<dataset, partition>>' # <<dataset, partition>>) =>
          UNCHANGED <<transform, phase, status>>

C10_ReadsLeaveObjectUnchanged == [][C10_Step]_vars

\* the class map was replaced after construction; one caller then read an
\* item while the other holds a refused read
C10_Witness ==
    /\ status = "ready"
    /\ phase \in StdPhases
    /\ Len(dataset) = 1
    /\ \E w, v \in Workers :
          /\ wres[w].op = "getitem"
          /\ wres[w].out.err = "none"
          /\ wres[w].arg = 1
          /\ wres[v].op = "label"
          /\ wres[v].out.err = "AssertionError"

====
